---------------------------- MODULE Spec2Model ----------------------------
(***************************************************************************)
(* A model of conftastic (src/src/conftastic/conf.py): the Config store    *)
(* (a dict with merge-from-source operations, get and get_recursive) and   *)
(* the Loader (format resolution, search-path merge, build).               *)
(*                                                                         *)
(* Python strings that the code inspects (file names, file types, path     *)
(* segments, environment variable names) are sequences of one-character    *)
(* strings, so that splitext, lower, startswith, slicing and int() are     *)
(* computed and not assumed.  Python values are tagged records (Node), all *)
(* of one shape.  Dict objects whose identity matters (the defaults dict,  *)
(* every Config) live in a heap: a sequence indexed by object id.          *)
(*                                                                         *)
(* Three specifications share the variables:                               *)
(*   LookupSpec  get and get_recursive on a Config drawn from SampleStores *)
(*   MergeSpec   the from_* merge methods on a Config                      *)
(*   Spec        a Loader: set_defaults, add_folder_path, build, with the  *)
(*               candidate files changing and the caller using the Config  *)
(***************************************************************************)
EXTENDS Integers, Sequences, FiniteSets, TLC

VARIABLES
    heap,       \* object id -> the items of that dict / Config object
    filename,   \* Loader.filename
    filetype,   \* Loader.filetype (NoneStr when not given)
    paths,      \* Loader.paths
    defaults,   \* Loader.defaults: 0 (None) or the id of the caller's dict
    fs,         \* the filesystem: full path -> what the file's parser yields
    environ,    \* os.environ: variable name -> value
    pyyaml,     \* the major version of the installed PyYAML
    config,     \* the Config object the caller holds (0: none yet)
    ret,        \* the last call: operation, arguments, outcome
    lastBuild   \* the last build() outcome, and whether anything changed since

vars == <<heap, filename, filetype, paths, defaults, fs, environ, pyyaml,
          config, ret, lastBuild>>

(***************************************************************************)
(* Bounds of the model.                                                    *)
(***************************************************************************)
MaxPaths == 2      \* add_folder_path calls per Loader
MaxObjs == 4       \* objects ever allocated in the heap
MaxSegs == 3       \* path segments handed to get_recursive

(***************************************************************************)
(* Strings as character sequences.                                         *)
(***************************************************************************)
UpperChars == <<"A","B","C","D","E","F","G","H","I","J","K","L","M",
                "N","O","P","Q","R","S","T","U","V","W","X","Y","Z">>
LowerChars == <<"a","b","c","d","e","f","g","h","i","j","k","l","m",
                "n","o","p","q","r","s","t","u","v","w","x","y","z">>
Digits == <<"0","1","2","3","4","5","6","7","8","9">>

\* str.lower() on one character
LowerChar(c) ==
    IF \E i \in DOMAIN UpperChars : UpperChars[i] = c
    THEN LowerChars[CHOOSE i \in DOMAIN UpperChars : UpperChars[i] = c]
    ELSE c

\* str.lower()
Lower(s) == [i \in DOMAIN s |-> LowerChar(s[i])]

\* str.rfind(c), 1-based; 0 when c does not occur
RFind(s, c) ==
    LET hits == {i \in DOMAIN s : s[i] = c}
    IN  IF hits = {} THEN 0 ELSE CHOOSE i \in hits : \A j \in hits : j <= i

\* str.startswith(p)
StartsWith(s, p) == Len(s) >= Len(p) /\ SubSeq(s, 1, Len(p)) = p

\* s[n:]
DropFirst(s, n) == SubSeq(s, n + 1, Len(s))

\* os.path.splitext(p)[1]: the extension starts at the last "." of the last
\* path component, unless that component has only dots before it.
SplitExt(p) ==
    LET sepIndex == RFind(p, "/")
        dotIndex == RFind(p, ".")
    IN  IF dotIndex > sepIndex
           /\ \E i \in (sepIndex + 1)..(dotIndex - 1) : p[i] # "."
        THEN SubSeq(p, dotIndex, Len(p))
        ELSE <<>>

\* os.path.join(a, b)
Join(a, b) ==
    IF Len(b) > 0 /\ b[1] = "/" THEN b
    ELSE IF Len(a) = 0 \/ a[Len(a)] = "/" THEN a \o b
    ELSE a \o <<"/">> \o b

(***************************************************************************)
(* Python values.  A path segment or dict key is a Seg; a value is a Node. *)
(* The fields a kind does not use hold a fixed filler.                     *)
(***************************************************************************)
StrSeg(chars) == [t |-> "str", n |-> 0, s |-> chars]
IntSeg(k) == [t |-> "int", n |-> k, s |-> <<>>]

NoItems == [k \in {} |-> 0]

NoneNode == [kind |-> "none", n |-> 0, s |-> <<>>, elems |-> <<>>, items |-> NoItems]
IntNode(k) == [kind |-> "int", n |-> k, s |-> <<>>, elems |-> <<>>, items |-> NoItems]
StrNode(chars) == [kind |-> "str", n |-> 0, s |-> chars, elems |-> <<>>, items |-> NoItems]
ListNode(es) == [kind |-> "list", n |-> 0, s |-> <<>>, elems |-> es, items |-> NoItems]
DictNode(its) == [kind |-> "dict", n |-> 0, s |-> <<>>, elems |-> <<>>, items |-> its]

\* a dict display {k1: v1, ...} given as a set of <<key, value>> pairs
Items(pairs) ==
    [k \in {p[1] : p \in pairs} |-> (CHOOSE p \in pairs : p[1] = k)[2]]

\* dict.update(m): every key of m takes m's value, the other keys stay
Update(its, m) ==
    [k \in (DOMAIN its) \cup (DOMAIN m) |-> IF k \in DOMAIN m THEN m[k] ELSE its[k]]

\* dict.__setitem__(k, v)
SetItem(its, k, v) ==
    [j \in (DOMAIN its) \cup {k} |-> IF j = k THEN v ELSE its[j]]

(***************************************************************************)
(* The outcome of a call: it returns a value (a Node), returns an object   *)
(* (a heap id), or raises.                                                 *)
(***************************************************************************)
Returned(v) == [outcome |-> "return", exc |-> "", value |-> v, obj |-> 0]
ReturnedObj(id) == [outcome |-> "return", exc |-> "", value |-> NoneNode, obj |-> id]
Raised(e) == [outcome |-> "raise", exc |-> e, value |-> NoneNode, obj |-> 0]

(***************************************************************************)
(* int(x), for the strings the model draws: an optional sign followed by   *)
(* decimal digits.  An int converts to itself.                             *)
(***************************************************************************)
IsDigit(c) == \E i \in DOMAIN Digits : Digits[i] = c
DigitVal(c) == (CHOOSE i \in DOMAIN Digits : Digits[i] = c) - 1

RECURSIVE DecimalVal(_)
DecimalVal(ds) ==
    IF ds = <<>> THEN 0
    ELSE 10 * DecimalVal(SubSeq(ds, 1, Len(ds) - 1)) + DigitVal(ds[Len(ds)])

IntConv(seg) ==
    IF seg.t = "int" THEN [ok |-> TRUE, n |-> seg.n]
    ELSE LET signed == Len(seg.s) > 0 /\ seg.s[1] \in {"-", "+"}
             ds == IF signed THEN Tail(seg.s) ELSE seg.s
         IN  IF Len(ds) > 0 /\ \A i \in DOMAIN ds : IsDigit(ds[i])
             THEN [ok |-> TRUE,
                   n |-> IF signed /\ seg.s[1] = "-"
                         THEN 0 - DecimalVal(ds) ELSE DecimalVal(ds)]
             ELSE [ok |-> FALSE, n |-> 0]

(***************************************************************************)
(* data[key] on a dict (key lookup) or a list (index, where a negative     *)
(* index counts from the end); ok is FALSE where Python raises.            *)
(***************************************************************************)
Subscript(data, key) ==
    IF data.kind = "dict"
    THEN IF key \in DOMAIN data.items
         THEN [ok |-> TRUE, value |-> data.items[key]]
         ELSE [ok |-> FALSE, value |-> NoneNode]
    ELSE IF data.kind = "list" /\ key.t = "int"
    THEN LET len == Len(data.elems)
             i == IF key.n < 0 THEN key.n + len ELSE key.n
         IN  IF 0 <= i /\ i < len
             THEN [ok |-> TRUE, value |-> data.elems[i + 1]]
             ELSE [ok |-> FALSE, value |-> NoneNode]
    ELSE [ok |-> FALSE, value |-> NoneNode]

(***************************************************************************)
(* Config.get(name, fallback)                                              *)
(***************************************************************************)
Get(its, name, fallback) ==
    IF name \in DOMAIN its
    THEN LET r == Subscript(DictNode(its), name)
         IN  IF r.ok THEN Returned(r.value) ELSE Raised("KeyError")
    ELSE Returned(fallback)

\* Descend without the try around data[path]: a failed lookup raises
DescendNoTry(data, path, fallback) ==
    IF data.kind \notin {"dict", "list"}
    THEN [done |-> TRUE, result |-> Returned(fallback), data |-> data]
    ELSE IF data.kind = "dict" /\ path \notin DOMAIN data.items
    THEN [done |-> TRUE, result |-> Returned(fallback), data |-> data]
    ELSE
      LET conv == IF data.kind = "list" THEN IntConv(path)
                  ELSE [ok |-> TRUE, n |-> 0]
          key == IF data.kind = "list" THEN IntSeg(conv.n) ELSE path
          r == Subscript(data, key)
      IN  IF ~conv.ok
          THEN [done |-> TRUE, result |-> Returned(fallback), data |-> data]
          ELSE IF ~r.ok
          THEN [done |-> TRUE, result |-> Raised("IndexError"), data |-> data]
          ELSE [done |-> FALSE, result |-> Returned(r.value), data |-> r.value]

(***************************************************************************)
(* One pass of get_recursive's loop body at node data with segment path:   *)
(* either the loop returns (done, with result), or data becomes the child. *)
(***************************************************************************)
Descend(data, path, fallback) ==
    IF data.kind \notin {"dict", "list"}
    THEN [done |-> TRUE, result |-> Returned(fallback), data |-> data]
    ELSE IF data.kind = "dict" /\ path \notin DOMAIN data.items
    THEN [done |-> TRUE, result |-> Returned(fallback), data |-> data]
    ELSE
      LET conv == IF data.kind = "list" THEN IntConv(path)
                  ELSE [ok |-> TRUE, n |-> 0]
          key == IF data.kind = "list" THEN IntSeg(conv.n) ELSE path
          r == Subscript(data, key)
      IN  IF ~conv.ok
          THEN [done |-> TRUE, result |-> Returned(fallback), data |-> data]
          ELSE IF ~r.ok
          THEN [done |-> TRUE, result |-> Returned(fallback), data |-> data]
          ELSE [done |-> FALSE, result |-> Returned(r.value), data |-> r.value]

(***************************************************************************)
(* Config.get_recursive(setting, fallback): the loop from segment i on,    *)
(* with data the node reached so far.                                      *)
(***************************************************************************)
RECURSIVE GetRecursiveFrom(_, _, _, _)
GetRecursiveFrom(data, setting, i, fallback) ==
    IF i > Len(setting) THEN Returned(data)
    ELSE LET d == Descend(data, setting[i], fallback)
         IN  IF d.done THEN d.result
             ELSE GetRecursiveFrom(d.data, setting, i + 1, fallback)

GetRecursive(its, setting, fallback) ==
    GetRecursiveFrom(DictNode(its), setting, 1, fallback)

(***************************************************************************)
(* Inputs of the lookup operations.                                        *)
(***************************************************************************)
SA == StrSeg(<<"a">>)
SB == StrSeg(<<"b">>)

\* {"a": {"b": [10, 20]}}
StoreList == Items({<<SA, DictNode(Items({<<SB, ListNode(<<IntNode(10), IntNode(20)>>)>>}))>>})
\* {"a": {"b": []}}
StoreEmptyList == Items({<<SA, DictNode(Items({<<SB, ListNode(<<>>)>>}))>>})
\* {"a": {"b": "x"}}
StoreString == Items({<<SA, DictNode(Items({<<SB, StrNode(<<"x">>)>>}))>>})
\* {"b": 1}
StoreNoA == Items({<<SB, IntNode(1)>>})
\* {"a": [{"b": 10}, [20]], "0": 5, 1: "x"}
StoreMixed ==
    Items({<<SA, ListNode(<<DictNode(Items({<<SB, IntNode(10)>>})),
                            ListNode(<<IntNode(20)>>)>>)>>,
           <<StrSeg(<<"0">>), IntNode(5)>>,
           <<IntSeg(1), StrNode(<<"x">>)>>})

SampleStores == {NoItems, StoreList, StoreEmptyList, StoreString, StoreNoA, StoreMixed}

\* path segments: strings and integers
SampleSegs == {SA, SB, StrSeg(<<"0">>), StrSeg(<<"-", "1">>), StrSeg(<<"1", "x">>),
               IntSeg(0), IntSeg(1), IntSeg(2), IntSeg(-1)}

SegPaths == UNION {[1..n -> SampleSegs] : n \in 0..MaxSegs}

Fallbacks == {NoneNode, StrNode(<<"f", "b">>)}

(***************************************************************************)
(* The record of a call: the operation, the object it was called on, that  *)
(* object's items before the call, the arguments and the outcome.          *)
(***************************************************************************)
Call(op, self, pre, args, res) ==
    [op |-> op, self |-> self, pre |-> pre, args |-> args, res |-> res]

NoCall == Call("none", 0, NoItems, [silent |-> FALSE], Returned(NoneNode))

NoStr == [given |-> FALSE, s |-> <<>>]
Str(chars) == [given |-> TRUE, s |-> chars]
\* "not x" for an optional string: None and "" are false
Falsy(x) == ~x.given \/ x.s = <<>>

NoBuild == [built |-> FALSE, touched |-> FALSE, res |-> Returned(NoneNode),
            items |-> NoItems]

(***************************************************************************)
(* Lookups on a Config: get and get_recursive.  A lookup changes nothing,  *)
(* so a behaviour makes one call on the store drawn by LookupInit.         *)
(***************************************************************************)
DoGet ==
    /\ ret.op = "none"
    /\ \E name \in SampleSegs, fallback \in Fallbacks :
        ret' = Call("get", config, heap[config],
                    [name |-> name, fallback |-> fallback],
                    Get(heap[config], name, fallback))
    /\ UNCHANGED <<pyyaml, heap, filename, filetype, paths, defaults, fs, environ,
                   config, lastBuild>>

DoGetRecursive ==
    /\ ret.op = "none"
    /\ \E setting \in SegPaths, fallback \in Fallbacks :
        ret' = Call("get_recursive", config, heap[config],
                    [setting |-> setting, fallback |-> fallback],
                    GetRecursive(heap[config], setting, fallback))
    /\ UNCHANGED <<pyyaml, heap, filename, filetype, paths, defaults, fs, environ,
                   config, lastBuild>>

LookupInit ==
    /\ \E its \in SampleStores : heap = <<its>>
    /\ config = 1
    /\ filename = <<>>
    /\ filetype = NoStr
    /\ paths = <<>>
    /\ defaults = 0
    /\ fs = NoItems
    /\ environ = NoItems
    /\ pyyaml = 6
    /\ ret = NoCall
    /\ lastBuild = NoBuild

LookupNext == DoGet \/ DoGetRecursive

LookupSpec == LookupInit /\ [][LookupNext]_vars

(***************************************************************************)
(* Claims about the lookups.                                               *)
(***************************************************************************)
\* every node of a structure: the node itself and the nodes of its children
RECURSIVE SubNodes(_)
SubNodes(node) ==
    {node} \cup
    (IF node.kind = "list"
     THEN UNION {SubNodes(node.elems[i]) : i \in DOMAIN node.elems}
     ELSE IF node.kind = "dict"
     THEN UNION {SubNodes(node.items[k]) : k \in DOMAIN node.items}
     ELSE {})

\* C4: get_recursive never raises and returns the fallback or a node of the
\* stored structure; get never raises and returns the stored value of a
\* present key and the fallback for an absent one.
C4_LookupsNeverRaise ==
    /\ ret.op = "get_recursive" =>
          /\ ret.res.outcome = "return"
          /\ \/ ret.res.value = ret.args.fallback
             \/ ret.res.value \in SubNodes(DictNode(ret.pre))
    /\ ret.op = "get" =>
          /\ ret.res.outcome = "return"
          /\ ret.res.value = IF ret.args.name \in DOMAIN ret.pre
                             THEN ret.pre[ret.args.name]
                             ELSE ret.args.fallback

\* C4 witness: a lookup that indexes a list out of range came back with the
\* fallback.
C4_Witness ==
    /\ ret.op = "get_recursive"
    /\ ret.pre = StoreList
    /\ ret.args.setting = <<SA, SB, IntSeg(2)>>
    /\ ret.res = Returned(ret.args.fallback)

\* The traversal as the specification words it: a sequence node takes only
\* a segment that parses as a non-negative integer index in range.
RECURSIVE StatedTraversal(_, _, _, _)
StatedTraversal(data, setting, i, fallback) ==
    IF i > Len(setting) THEN data
    ELSE
      LET path == setting[i]
          conv == IntConv(path)
      IN  IF data.kind = "dict"
          THEN IF path \in DOMAIN data.items
               THEN StatedTraversal(data.items[path], setting, i + 1, fallback)
               ELSE fallback
          ELSE IF data.kind = "list"
          THEN IF conv.ok /\ conv.n >= 0 /\ conv.n < Len(data.elems)
               THEN StatedTraversal(data.elems[conv.n + 1], setting, i + 1, fallback)
               ELSE fallback
          ELSE fallback

\* C5: get_recursive returns what the stated step-by-step traversal returns,
\* for every store and every path.
C5_StatedTraversal ==
    ret.op = "get_recursive" =>
        ret.res = Returned(StatedTraversal(DictNode(ret.pre), ret.args.setting,
                                           1, ret.args.fallback))

(***************************************************************************)
(* The filesystem and the external parsers.  A file is what its format's   *)
(* parser makes of it: a mapping (ok), or a parse error (not ok).          *)
(***************************************************************************)
File(ok, data) == [ok |-> ok, data |-> data]

\* os.path.exists(p)
Exists(p) == p \in DOMAIN fs

\* The one element of a singleton set.  A value that is costly to compute
\* and used several times is bound as x \in {value}, so that it is
\* computed once.
The(S) == CHOOSE x \in S : TRUE

\* what a merge operation hands back: the heap after it, its outcome, and
\* the paths it handed to an external parser
Done(h, res, parsed) == [heap |-> h, res |-> res, parsed |-> parsed]

(***************************************************************************)
(* The load callables that from_file is handed.  from_file calls load(f)   *)
(* with the open file as the only argument.  jstyleson.load and toml.load  *)
(* take it; yaml.load takes it up to PyYAML 5 (with a warning from 5.1 on) *)
(* and from PyYAML 6 on requires a second argument, Loader, so that the    *)
(* call raises TypeError before anything is read.  Which PyYAML is         *)
(* installed is not fixed by the repository: both are modelled.            *)
(***************************************************************************)
JsonLoad == "jstyleson.load"
TomlLoad == "toml.load"
YamlLoad == "yaml.load"
CallerLoad == "load"       \* a caller's own parser of one argument

PyYAMLVersions == {5, 6}

\* load(f) is a call with too few arguments
RejectsOneArgument(load) == load = YamlLoad /\ pyyaml >= 6

(***************************************************************************)
(* Config.from_file(filename, load, silent)                                *)
(***************************************************************************)
FromFile(h, self, fname, load, silent) ==
    IF silent /\ ~Exists(fname) THEN Done(h, ReturnedObj(self), <<>>)
    ELSE IF ~Exists(fname) THEN Done(h, Raised("FileNotFoundError"), <<>>)
    ELSE IF RejectsOneArgument(load) THEN Done(h, Raised("TypeError"), <<fname>>)
    ELSE IF ~fs[fname].ok THEN Done(h, Raised("ParseError"), <<fname>>)
    ELSE Done([h EXCEPT ![self] = Update(@, fs[fname].data)],
              ReturnedObj(self), <<fname>>)

\* Config.from_json / from_toml / from_yaml: from_file with the library's
\* load, then return self
FromLibrary(load, h, self, fname, silent) ==
    The({ IF r.res.outcome = "return"
          THEN Done(r.heap, ReturnedObj(self), r.parsed)
          ELSE r
          : r \in {FromFile(h, self, fname, load, silent)} })

FromJson(h, self, fname, silent) == FromLibrary(JsonLoad, h, self, fname, silent)
FromToml(h, self, fname, silent) == FromLibrary(TomlLoad, h, self, fname, silent)
FromYaml(h, self, fname, silent) == FromLibrary(YamlLoad, h, self, fname, silent)

(***************************************************************************)
(* Config.from_ini(filename, silent): ConfigParser.read skips a file that  *)
(* does not exist; every section becomes a top-level key.                  *)
(***************************************************************************)
RECURSIVE SetSections(_, _, _)
SetSections(its, data, sections) ==
    IF sections = {} THEN its
    ELSE LET section == CHOOSE x \in sections : TRUE
         IN  SetSections(SetItem(its, section, data[section]), data,
                         sections \ {section})

FromIni(h, self, fname, silent) ==
    IF silent /\ ~Exists(fname) THEN Done(h, ReturnedObj(self), <<>>)
    ELSE IF ~Exists(fname) THEN Done(h, ReturnedObj(self), <<fname>>)
    ELSE IF ~fs[fname].ok THEN Done(h, Raised("ParseError"), <<fname>>)
    ELSE Done([h EXCEPT ![self] = SetSections(@, fs[fname].data,
                                              DOMAIN fs[fname].data)],
              ReturnedObj(self), <<fname>>)

(***************************************************************************)
(* Config.from_dotenv(filename, silent).  dotenv_values without a file     *)
(* name looks for ".env"; a file it does not find yields no values.        *)
(***************************************************************************)
DotEnvName == <<".", "e", "n", "v">>

DotenvValues(fname) ==
    LET p == IF ~fname.given THEN DotEnvName ELSE fname.s
    IN  IF ~Exists(p) THEN [ok |-> TRUE, data |-> NoItems, parsed |-> <<p>>]
        ELSE [ok |-> fs[p].ok, data |-> fs[p].data, parsed |-> <<p>>]

\* from_dotenv without the check that the named file exists
FromDotenvNoCheck(h, self, fname, silent) ==
    LET v == DotenvValues(fname)
    IN  IF ~v.ok THEN Done(h, Raised("ParseError"), v.parsed)
        ELSE Done([h EXCEPT ![self] = Update(@, v.data)],
                  ReturnedObj(self), v.parsed)

FromDotenv(h, self, fname, silent) ==
    IF ~Falsy(fname) /\ ~Exists(fname.s)
    THEN IF silent THEN Done(h, ReturnedObj(self), <<>>)
         ELSE Done(h, Raised("IOError: File not found"), <<>>)
    ELSE LET v == DotenvValues(fname)
         IN  IF ~v.ok THEN Done(h, Raised("ParseError"), v.parsed)
             ELSE Done([h EXCEPT ![self] = Update(@, v.data)],
                       ReturnedObj(self), v.parsed)

(***************************************************************************)
(* Config.from_environment(prefix): the loop over environ.items(), from    *)
(* entry i on.  environ is a sequence of <<name, value>> with unique names.*)
(***************************************************************************)
\* the key a matching variable is stored under, cutting len(prefix) only
EnvKeyShort(key, prefix) == StrSeg(DropFirst(key, Len(prefix)))

EnvKey(key, prefix) == StrSeg(DropFirst(key, Len(prefix \o <<"_">>)))

RECURSIVE EnvLoop(_, _, _)
EnvLoop(its, prefix, i) ==
    IF i > Len(environ) THEN its
    ELSE LET key == environ[i][1]
             value == environ[i][2]
         IN  IF StartsWith(key, prefix \o <<"_">>)
             THEN EnvLoop(SetItem(its, EnvKey(key, prefix), StrNode(value)),
                          prefix, i + 1)
             ELSE EnvLoop(its, prefix, i + 1)

FromEnvironment(h, self, prefix) ==
    Done([h EXCEPT ![self] = EnvLoop(@, prefix, 1)], ReturnedObj(self), <<>>)

(***************************************************************************)
(* Inputs of the merge operations.                                         *)
(***************************************************************************)
AppJson == <<"a", "p", "p", ".", "j", "s", "o", "n">>
AppIni == <<"a", "p", "p", ".", "i", "n", "i">>
BadToml == <<"b", "a", "d", ".", "t", "o", "m", "l">>
NoSuchFile == <<"n", "o", ".", "e", "n", "v">>

SHost == StrSeg(<<"H", "O", "S", "T">>)
SPort == StrSeg(<<"P", "O", "R", "T">>)
Localhost == <<"l", "o", "c", "a", "l", "h", "o", "s", "t">>

\* {"a": 2, "b": [1]}
MapAB == Items({<<SA, IntNode(2)>>, <<SB, ListNode(<<IntNode(1)>>)>>})
\* [server] host=localhost
MapServer ==
    Items({<<StrSeg(<<"s", "e", "r", "v", "e", "r">>),
             DictNode(Items({<<StrSeg(<<"h", "o", "s", "t">>), StrNode(Localhost)>>}))>>})
\* HOST=h
MapHost == Items({<<SHost, StrNode(<<"h">>)>>})

MergeFiles == {
    Items({<<AppJson, File(TRUE, MapAB)>>, <<AppIni, File(TRUE, MapServer)>>,
           <<BadToml, File(FALSE, NoItems)>>}),
    Items({<<AppJson, File(TRUE, MapAB)>>, <<DotEnvName, File(TRUE, MapHost)>>}) }

\* APP_HOST=localhost APP_PORT=8080 OTHER=1
EnvExample == << <<<<"A", "P", "P", "_", "H", "O", "S", "T">>, Localhost>>,
                 <<<<"A", "P", "P", "_", "P", "O", "R", "T">>, <<"8", "0", "8", "0">>>>,
                 <<<<"O", "T", "H", "E", "R">>, <<"1">> >> >>
\* names around the prefix: APP_, APPX_HOST, AP_P, _K, APP, APP_HOST
EnvEdges == << <<<<"A", "P", "P", "_">>, <<"x">> >>,
               <<<<"A", "P", "P", "X", "_", "H", "O", "S", "T">>, <<"y">> >>,
               <<<<"A", "P", "_", "P">>, <<"z">> >>,
               <<<<"_", "K">>, <<"v">> >>,
               <<<<"A", "P", "P">>, <<"u">> >>,
               <<<<"A", "P", "P", "_", "H", "O", "S", "T">>, <<"w">> >> >>

SampleEnvirons == {<<>>, EnvExample, EnvEdges}
SamplePrefixes == {<<"A", "P", "P">>, <<"A", "P">>, <<>>, <<"O", "T", "H", "E", "R">>}

MergeStores == {NoItems, StoreNoA, MapHost}
MergeNames == {AppJson, AppIni, BadToml, NoSuchFile}
DotenvNames == {NoStr, Str(<<>>), Str(DotEnvName), Str(NoSuchFile), Str(BadToml)}

(***************************************************************************)
(* The merge operations as actions on the Config the caller holds.         *)
(***************************************************************************)
Merged(op, args, r) ==
    /\ heap' = r.heap
    /\ ret' = Call(op, config, heap[config], args @@ [parsed |-> r.parsed], r.res)
    /\ UNCHANGED <<pyyaml, filename, filetype, paths, defaults, fs, environ, config,
                   lastBuild>>

DoFromFile ==
    \E fname \in MergeNames, silent \in BOOLEAN :
        Merged("from_file", [filename |-> fname, silent |-> silent],
               FromFile(heap, config, fname, CallerLoad, silent))

DoFromLibrary ==
    \E op \in {"from_json", "from_toml", "from_yaml"},
       fname \in MergeNames, silent \in BOOLEAN :
        Merged(op, [filename |-> fname, silent |-> silent],
               CASE op = "from_json" -> FromJson(heap, config, fname, silent)
                 [] op = "from_toml" -> FromToml(heap, config, fname, silent)
                 [] op = "from_yaml" -> FromYaml(heap, config, fname, silent))

DoFromIni ==
    \E fname \in MergeNames, silent \in BOOLEAN :
        Merged("from_ini", [filename |-> fname, silent |-> silent],
               FromIni(heap, config, fname, silent))

DoFromDotenv ==
    \E fname \in DotenvNames, silent \in BOOLEAN :
        Merged("from_dotenv", [filename |-> fname, silent |-> silent],
               FromDotenv(heap, config, fname, silent))

DoFromEnvironment ==
    \E prefix \in SamplePrefixes :
        Merged("from_environment", [prefix |-> prefix],
               FromEnvironment(heap, config, prefix))

MergeInit ==
    /\ \E its \in MergeStores : heap = <<its>>
    /\ config = 1
    /\ filename = <<>>
    /\ filetype = NoStr
    /\ paths = <<>>
    /\ defaults = 0
    /\ fs \in MergeFiles
    /\ environ \in SampleEnvirons
    /\ pyyaml \in PyYAMLVersions
    /\ ret = NoCall
    /\ lastBuild = NoBuild

MergeNext ==
    \/ DoFromFile
    \/ DoFromLibrary
    \/ DoFromIni
    \/ DoFromDotenv
    \/ DoFromEnvironment

MergeSpec == MergeInit /\ [][MergeNext]_vars

(***************************************************************************)
(* Claims about the merge operations.  ret describes the call just made,   *)
(* heap[ret.self] is the Config after it and ret.pre the Config before it. *)
(***************************************************************************)
\* C3: a generic merge of an existing file whose parser yields M leaves every
\* key of M with M's value, every other key of the Config as it was, adds no
\* other key, and returns the Config it was called on.
C3_GenericMergeOverlay ==
    (/\ ret.op \in {"from_file", "from_json", "from_toml", "from_yaml"}
     /\ Exists(ret.args.filename)
     /\ fs[ret.args.filename].ok)
    => LET M == fs[ret.args.filename].data
           S == ret.pre
           post == heap[ret.self]
       IN  /\ ret.res = ReturnedObj(ret.self)
           /\ \A k \in DOMAIN M : k \in DOMAIN post /\ post[k] = M[k]
           /\ \A k \in (DOMAIN S) \ (DOMAIN M) : k \in DOMAIN post /\ post[k] = S[k]
           /\ DOMAIN post \subseteq (DOMAIN S) \cup (DOMAIN M)

\* name = P + "_" + rest
IsPrefixed(name, P, rest) == name = P \o <<"_">> \o rest
Suffixes(name) == {SubSeq(name, j, Len(name)) : j \in 1..(Len(name) + 1)}

\* C9: from_environment(P) maps, for every variable named P_rest, the key
\* rest to the variable's string value, and changes nothing else; on the
\* empty Config with APP_HOST, APP_PORT and OTHER it yields HOST and PORT.
C9_FromEnvironment ==
    ret.op = "from_environment" =>
        LET P == ret.args.prefix
            S == ret.pre
            post == heap[ret.self]
            produced == {StrSeg(rest) : rest \in
                            UNION {{r \in Suffixes(environ[i][1]) :
                                        IsPrefixed(environ[i][1], P, r)} :
                                   i \in DOMAIN environ}}
        IN  /\ ret.res = ReturnedObj(ret.self)
            /\ \A i \in DOMAIN environ : \A rest \in Suffixes(environ[i][1]) :
                  IsPrefixed(environ[i][1], P, rest) =>
                      /\ StrSeg(rest) \in DOMAIN post
                      /\ post[StrSeg(rest)] = StrNode(environ[i][2])
            /\ DOMAIN post = (DOMAIN S) \cup produced
            /\ \A k \in (DOMAIN S) \ produced : post[k] = S[k]
            /\ (S = NoItems /\ environ = EnvExample /\ P = <<"A", "P", "P">>) =>
                  post = Items({<<SHost, StrNode(Localhost)>>,
                                <<SPort, StrNode(<<"8", "0", "8", "0">>)>>})

\* C9 witness: the prefix APP on a Config holding HOST already, with the
\* variables APP_, APPX_HOST, AP_P, _K, APP and APP_HOST set.
C9_Witness ==
    /\ ret.op = "from_environment"
    /\ ret.args.prefix = <<"A", "P", "P">>
    /\ environ = EnvEdges
    /\ ret.pre = MapHost
    /\ heap[ret.self] = Items({<<SHost, StrNode(<<"w">>)>>,
                               <<StrSeg(<<>>), StrNode(<<"x">>)>>})

\* C10: from_dotenv with the name of a file that does not exist raises the
\* file-not-found IOError when silent is false, returns the same Config when
\* silent is true, and in both cases leaves the Config as it was and does
\* not call the dotenv parser.
C10_DotenvMissingFile ==
    (/\ ret.op = "from_dotenv"
     /\ ~Falsy(ret.args.filename)
     /\ ~Exists(ret.args.filename.s))
    => /\ heap[ret.self] = ret.pre
       /\ ret.args.parsed = <<>>
       /\ ~ret.args.silent => ret.res = Raised("IOError: File not found")
       /\ ret.args.silent => ret.res = ReturnedObj(ret.self)

\* C10 witness: a named, missing dotenv file, silent false, on a Config that
\* holds keys.
C10_Witness ==
    /\ ret.op = "from_dotenv"
    /\ ret.args.filename = Str(NoSuchFile)
    /\ ~ret.args.silent
    /\ ret.pre = StoreNoA
    /\ ret.res.outcome = "raise"

(***************************************************************************)
(* The Loader.                                                             *)
(***************************************************************************)
TJson == <<"j", "s", "o", "n">>
TToml == <<"t", "o", "m", "l">>
TYaml == <<"y", "a", "m", "l">>
TIni == <<"i", "n", "i">>
TEnv == <<"e", "n", "v">>

\* Loader._from_map: its keys, and the merge method of a key
FromMapKeys == {TJson, TToml, TYaml, TIni, TEnv}

FromMap(key) ==
    CASE key = TJson -> "from_json"
      [] key = TToml -> "from_toml"
      [] key = TYaml -> "from_yaml"
      [] key = TIni -> "from_ini"
      [] key = TEnv -> "from_dotenv"

\* Config(defaults) sharing the defaults dict instead of copying its items
ConfigInitAlias(h, d) ==
    IF d = 0 THEN [heap |-> Append(h, NoItems), self |-> Len(h) + 1]
    ELSE [heap |-> h, self |-> d]

\* Config.__init__(defaults): a new dict object holding the items of
\* "defaults or {}"
ConfigInit(h, d) ==
    [heap |-> Append(h, IF d = 0 THEN NoItems ELSE h[d]), self |-> Len(h) + 1]

\* Loader._get_filetype(): ok is FALSE where it raises UnknownFileType
GetFiletype(fname, ftype) ==
    LET ext == SplitExt(fname)
        found == IF Falsy(ftype) THEN DropFirst(ext, 1) ELSE ftype.s
    IN  IF Falsy(ftype) /\ Len(ext) < 1
        THEN [ok |-> FALSE, filetype |-> <<>>]
        ELSE IF Lower(found) \notin FromMapKeys
        THEN [ok |-> FALSE, filetype |-> found]
        ELSE [ok |-> TRUE, filetype |-> found]

\* loader(full_path): the bound merge method called with silent left False
CallLoader(method, h, self, full_path) ==
    CASE method = "from_json" -> FromJson(h, self, full_path, FALSE)
      [] method = "from_toml" -> FromToml(h, self, full_path, FALSE)
      [] method = "from_yaml" -> FromYaml(h, self, full_path, FALSE)
      [] method = "from_ini" -> FromIni(h, self, full_path, FALSE)
      [] method = "from_dotenv" -> FromDotenv(h, self, Str(full_path), FALSE)

\* what the loop of build() carries: the heap, the outcome so far, the paths
\* handed to a parser, the paths looked up, and config_file_found
LoopState(h, res, parsed, looked, found) ==
    [heap |-> h, res |-> res, parsed |-> parsed, looked |-> looked, found |-> found]

\* the loop of build() over self.paths, from path i on: a candidate that
\* does not exist is skipped, an exception of the loader ends the loop
RECURSIVE BuildLoop(_, _, _, _)
BuildLoop(st, self, method, i) ==
    IF i > Len(paths) THEN st
    ELSE The({
           IF ~Exists(full_path)
           THEN The({ BuildLoop(st1, self, method, i + 1) :
                      st1 \in {[st EXCEPT !.looked = Append(@, full_path)]} })
           ELSE
             The({ IF r.res.outcome = "raise"
                   THEN LoopState(r.heap, r.res, st.parsed \o r.parsed,
                                  Append(st.looked, full_path), st.found)
                   ELSE The({ BuildLoop(st2, self, method, i + 1) :
                              st2 \in {LoopState(r.heap, st.res, st.parsed \o r.parsed,
                                                 Append(st.looked, full_path), TRUE)} })
                   : r \in {CallLoader(method, st.heap, self, full_path)} })
           : full_path \in {Join(paths[i], filename)} })

\* build() raising UnknownFileType before anything else
UnknownType(h) == LoopState(h, Raised("UnknownFileType"), <<>>, <<>>, FALSE)

\* the part of build() after the file type is known: the Config, the loop
\* and the check of config_file_found, which here ignores silent
MergeAllStrict(h, ftype, silent) ==
    The({ The({ IF done.res.outcome = "return" /\ ~done.found
                THEN [done EXCEPT !.res = Raised("NoConfigFileFound")]
                ELSE done
                : done \in {BuildLoop(LoopState(c.heap, ReturnedObj(c.self),
                                                <<>>, <<>>, FALSE),
                                      c.self, FromMap(ftype), 1)} })
          : c \in {ConfigInit(h, defaults)} })

\* the part of build() after the file type is known: the Config, the loop
\* and the check of config_file_found
MergeAll(h, ftype, silent) ==
    The({ The({ IF done.res.outcome = "return" /\ ~done.found /\ ~silent
                THEN [done EXCEPT !.res = Raised("NoConfigFileFound")]
                ELSE done
                : done \in {BuildLoop(LoopState(c.heap, ReturnedObj(c.self),
                                                <<>>, <<>>, FALSE),
                                      c.self, FromMap(ftype), 1)} })
          : c \in {ConfigInit(h, defaults)} })

\* Loader.build(silent)
Build(h, silent) ==
    The({ IF ~ft.ok THEN UnknownType(h)
          ELSE IF ft.filetype \notin FromMapKeys THEN UnknownType(h)
          ELSE MergeAll(h, ft.filetype, silent)
          : ft \in {GetFiletype(filename, filetype)} })

(***************************************************************************)
(* Inputs of the Loader: the constructions Loader(filename, filetype),     *)
(* the directories, the defaults dict and the candidate files' contents.   *)
(***************************************************************************)
NewLoader(fname, ftype) == [filename |-> fname, filetype |-> ftype]

Loaders == {
    NewLoader(<<"a", "p", "p", ".", "j", "s", "o", "n">>, NoStr),
    NewLoader(<<"a", "p", "p", ".", "J", "S", "O", "N">>, NoStr),
    NewLoader(<<"a", "p", "p", ".", "t", "o", "m", "l">>, Str(<<>>)),
    NewLoader(<<"a", "p", "p", ".", "c", "o", "n", "f", "i", "g">>, NoStr),
    NewLoader(<<"a", "p", "p", ".", "c", "o", "n", "f", "i", "g">>, Str(<<"J", "S", "O", "N">>)),
    NewLoader(<<"a", "p", "p", ".", "c", "o", "n", "f", "i", "g">>, Str(<<"Y", "a", "m", "l">>)),
    NewLoader(<<"a", "p", "p", ".", "j", "s", "o", "n">>, Str(<<"x", "m", "l">>)),
    NewLoader(<<"a", "p", "p", ".", "j", "s", "o", "n">>, Str(TEnv)),
    NewLoader(<<"a", "p", "p", ".", "y", "a", "m", "l">>, NoStr),
    NewLoader(<<"a", "p", "p">>, NoStr),
    NewLoader(<<"a", "p", "p">>, Str(TIni)),
    NewLoader(<<".", "e", "n", "v">>, NoStr),
    NewLoader(<<".", "e", "n", "v">>, Str(TEnv)),
    NewLoader(<<"x", ".", "d", "/", "a", "p", "p">>, NoStr),
    NewLoader(<<"/", "a", "p", "p", ".", "i", "n", "i">>, NoStr) }

Dirs == {<<"/", "a">>, <<"b", "/">>}

SC == StrSeg(<<"c">>)
Section(v) == DictNode(Items({<<StrSeg(<<"k">>), StrNode(v)>>}))

\* the caller's defaults dict: {"b": 1, "c": 1}
DefaultsDict == Items({<<SB, IntNode(1)>>, <<SC, IntNode(1)>>})
\* file contents: {"a": {"k": "x"}, "b": {"k": "x"}}, {"a": {"k": "y"}}, and
\* a file its parser rejects
LoadAB == Items({<<SA, Section(<<"x">>)>>, <<SB, Section(<<"x">>)>>})
LoadA == Items({<<SA, Section(<<"y">>)>>})

SampleFiles == {File(TRUE, LoadAB), File(TRUE, LoadA), File(FALSE, NoItems)}

\* the paths build() may look at
Candidates == {Join(d, filename) : d \in Dirs}

(***************************************************************************)
(* The Loader's operations, the caller's use of a built Config, and the    *)
(* filesystem changing under the Loader.                                   *)
(***************************************************************************)
\* lastBuild once something build() reads has changed: no build to compare with
Stale == NoBuild

\* the record of a step that is not a call under study
Other == Call("other", 0, NoItems, [silent |-> FALSE], ReturnedObj(0))

\* Loader.set_defaults(defaults): None or the caller's dict (object 1)
SetDefaults ==
    \E d \in {0, 1} :
        /\ defaults' = d
        /\ ret' = Other
        /\ lastBuild' = Stale
        /\ UNCHANGED <<pyyaml, heap, filename, filetype, paths, fs, environ, config>>

\* Loader.add_folder_path(path)
AddFolderPath ==
    \E path \in Dirs :
        /\ Len(paths) < MaxPaths
        /\ paths' = Append(paths, path)
        /\ ret' = Other
        /\ lastBuild' = Stale
        /\ UNCHANGED <<pyyaml, heap, filename, filetype, defaults, fs, environ, config>>

\* the heap once the caller lets go of the Config it held for a new one
Released(h, old, new) ==
    IF old # 0 /\ old # new /\ old # defaults THEN [h EXCEPT ![old] = NoItems] ELSE h

\* Loader.build(silent); a Config that is not returned is dropped, and the
\* caller keeps only the Config of its latest build
DoBuild ==
    \E silent \in BOOLEAN : \E r \in {Build(heap, silent)} :
      \E kept \in {IF r.res.outcome = "return"
                   THEN Released(r.heap, config, r.res.obj)
                   ELSE SubSeq(r.heap, 1, Len(heap))} :
        /\ Len(heap) < MaxObjs
        /\ heap' = kept
        /\ config' = IF r.res.outcome = "return" THEN r.res.obj ELSE config
        /\ ret' = Call("build", 0,
                       IF defaults = 0 THEN NoItems ELSE heap[defaults],
                       [silent |-> silent, parsed |-> r.parsed,
                        looked |-> r.looked, prior |-> lastBuild,
                        loader |-> <<filename, filetype, paths, defaults>>],
                       r.res)
        /\ lastBuild' = [built |-> TRUE, touched |-> FALSE, res |-> r.res,
                         items |-> IF r.res.outcome = "return"
                                   THEN kept[r.res.obj] ELSE NoItems]
        /\ UNCHANGED <<pyyaml, filename, filetype, paths, defaults, fs, environ>>

\* the caller sets a key of the Config it got from build(): dict.__setitem__
ConfigSetItem ==
    /\ config # 0
    /\ heap' = [heap EXCEPT ![config] = SetItem(@, SC, IntNode(9))]
    /\ ret' = Other
    /\ lastBuild' = IF lastBuild.built /\ lastBuild.res.outcome = "return"
                    THEN [lastBuild EXCEPT !.touched = TRUE] ELSE lastBuild
    /\ UNCHANGED <<pyyaml, filename, filetype, paths, defaults, fs, environ, config>>

\* a candidate file is written
WriteFile ==
    \E p \in Candidates, f \in SampleFiles :
        /\ fs' = SetItem(fs, p, f)
        /\ ret' = Other
        /\ lastBuild' = Stale
        /\ UNCHANGED <<pyyaml, heap, filename, filetype, paths, defaults, environ, config>>

\* a candidate file is removed
RemoveFile ==
    \E p \in DOMAIN fs :
        /\ fs' = [q \in (DOMAIN fs) \ {p} |-> fs[q]]
        /\ ret' = Other
        /\ lastBuild' = Stale
        /\ UNCHANGED <<pyyaml, heap, filename, filetype, paths, defaults, environ, config>>

Init ==
    /\ \E l \in Loaders : filename = l.filename /\ filetype = l.filetype
    /\ paths = <<>>
    /\ defaults = 0
    /\ heap = <<DefaultsDict>>
    /\ fs = NoItems
    /\ environ = <<>>
    /\ pyyaml \in PyYAMLVersions
    /\ config = 0
    /\ ret = NoCall
    /\ lastBuild = NoBuild

Next ==
    \/ SetDefaults
    \/ AddFolderPath
    \/ DoBuild
    \/ ConfigSetItem
    \/ WriteFile
    \/ RemoveFile

Spec == Init /\ [][Next]_vars

(***************************************************************************)
(* Claims about the Loader.  ret describes the build() call just made:     *)
(* ret.pre holds the items of the defaults dict when it was called (none   *)
(* for None), ret.args.prior the build before it when nothing build()      *)
(* reads has changed in between.                                           *)
(***************************************************************************)
\* the file type as build() resolves it: the explicit one, else the
\* extension without its dot
ResolvedType ==
    IF ~Falsy(filetype) THEN filetype.s ELSE DropFirst(SplitExt(filename), 1)

\* the format is one of the five identifiers
Recognised == ResolvedType \in FromMapKeys

\* the registered paths, by position, whose candidate file exists
Found == {i \in DOMAIN paths : Exists(Join(paths[i], filename))}
Content(i) == fs[Join(paths[i], filename)].data
Holders(k) == {i \in Found : k \in DOMAIN Content(i)}
Last(S) == CHOOSE i \in S : \A j \in S : j <= i

\* the defaults overlaid by every found file in registration order: a key
\* has the value of the last registered path whose file holds it, else the
\* default
Overlay(dflt) ==
    [k \in (DOMAIN dflt) \cup UNION {DOMAIN Content(i) : i \in Found} |->
        IF Holders(k) # {} THEN Content(Last(Holders(k)))[k] ELSE dflt[k]]

\* C1: with a recognised format and at least one candidate file present,
\* each holding a mapping, build() returns a Config equal to the defaults overlaid by the found
\* files in registration order; whatever build() returns is that overlay.
C1_BuildOverlay ==
    (ret.op = "build" /\ Recognised) =>
        /\ (Found # {} /\ \A i \in Found : fs[Join(paths[i], filename)].ok)
              => ret.res.outcome = "return"
        /\ ret.res.outcome = "return" => heap[ret.res.obj] = Overlay(ret.pre)

\* C2: with a recognised format and no candidate file present,
\* build(silent=false) raises NoConfigFileFound and build(silent=true)
\* returns a Config equal to the defaults; with a candidate file present
\* build() never raises NoConfigFileFound.
C2_NoConfigFileFound ==
    (ret.op = "build" /\ Recognised) =>
        /\ (Found = {} /\ ~ret.args.silent) => ret.res = Raised("NoConfigFileFound")
        /\ (Found = {} /\ ret.args.silent) =>
              /\ ret.res.outcome = "return"
              /\ heap[ret.res.obj] = ret.pre
        /\ Found # {} => ret.res.exc # "NoConfigFileFound"

\* C2 witness: a silent build with defaults and two registered paths, none
\* holding the file, returned the defaults.
C2_Witness ==
    /\ ret.op = "build"
    /\ Recognised
    /\ ret.args.silent
    /\ Len(paths) = 2
    /\ Found = {}
    /\ defaults = 1
    /\ ret.res.outcome = "return"
    /\ heap[ret.res.obj] = DefaultsDict

\* C6: a file type that is one of the five identifiers in any mix of upper
\* and lower case, given explicitly or as the file name's extension, is
\* resolved without UnknownFileType and the found files are merged as for
\* the lower-case spelling.
C6_CaseInsensitiveType ==
    (ret.op = "build" /\ Lower(ResolvedType) \in FromMapKeys) =>
        /\ ret.res.exc # "UnknownFileType"
        /\ ret.res.outcome = "return" => heap[ret.res.obj] = Overlay(ret.pre)

\* the format as the specification words it: the explicit file type, else
\* the text after the file name's last "."
AfterLastDot(fname) == SubSeq(fname, RFind(fname, ".") + 1, Len(fname))
StatedFormat == IF ~Falsy(filetype) THEN filetype.s ELSE AfterLastDot(filename)
StatedUnknown ==
    \/ Falsy(filetype) /\ RFind(filename, ".") = 0
    \/ StatedFormat \notin FromMapKeys

\* C7: build() raises UnknownFileType, before any candidate file is looked
\* up or merged, when no file type was given and the file name has no
\* extension or when the resolved format is not one of the five
\* identifiers; when it is one of them build() never raises it.
C7_UnknownFileType ==
    ret.op = "build" =>
        /\ StatedUnknown =>
              /\ ret.res = Raised("UnknownFileType")
              /\ ret.args.looked = <<>>
              /\ ret.args.parsed = <<>>
        /\ ~StatedUnknown => ret.res.exc # "UnknownFileType"

\* C8: build() leaves the Loader's filename, filetype, paths and defaults,
\* and the items of the defaults dict, as they were; two builds that both
\* return, with no setter call and no file change between them, return
\* equal Configs that are distinct objects, also when the caller has set a
\* key of the first one in between.
C8_BuildLeavesLoader ==
    ret.op = "build" =>
        /\ <<filename, filetype, paths, defaults>> = ret.args.loader
        /\ defaults # 0 => heap[defaults] = ret.pre
        /\ (/\ ret.args.prior.built
            /\ ret.args.prior.res.outcome = "return"
            /\ ret.res.outcome = "return")
           => /\ heap[ret.res.obj] = ret.args.prior.items
              /\ ret.res.obj # ret.args.prior.res.obj

\* C8 witness: a second build after the caller set a key of the Config the
\* first one returned, with defaults set and a file found.
C8_Witness ==
    /\ ret.op = "build"
    /\ ret.res.outcome = "return"
    /\ ret.args.prior.built
    /\ ret.args.prior.touched
    /\ defaults = 1
    /\ Found # {}

=============================================================================
